---- MODULE Spec2Model ----
(***************************************************************************)
(* LinkedIn career coach: the turn-based conversational routing core.      *)
(*                                                                         *)
(*   routing.py       router: the decision function of the graph           *)
(*   state.py         State: the declared keys of the graph state          *)
(*   graph_utils.py   the five node functions and build_graph              *)
(*   agents/*.py      the intent classifier and the four chat handlers     *)
(*   app.py           the session: profile load, prompt submission, turn   *)
(*                                                                         *)
(* Python dictionaries are records over a fixed set of keys; a key that is *)
(* not in the dictionary holds NoKey (strings) or a record of kind         *)
(* "absent" (dictionaries).  dict.get(k) reads a missing key as None.      *)
(***************************************************************************)
EXTENDS Naturals, Integers, Sequences, FiniteSets, TLC

\* ------------------------------------------------------------------ bounds
\* Prompts submitted in one session.
MaxTurns == 2
\* "Load Profile" requests in one session.
MaxLoads == 2

\* ------------------------------------------------------------ Python values
None == "None"
NoKey == "<no key>"
Missing == "<missing>"
PyTrue == "True"
PyFalse == "False"

\* Python truthiness of a string-encoded value read with dict.get.
Truthy(v) == v \notin {NoKey, Missing, None, PyFalse, ""}

\* d.get(k) on a value stored under k, or Missing / NoKey when k is not there.
DictGet(v) == IF v \in {Missing, NoKey} THEN None ELSE v

AbsentSlot == [kind |-> "absent"]
EmptySlot == [kind |-> "empty"]

\* `k in d and d[k]`: the key is there and its value is a non-empty dict.
PresentAndTruthy(slot) == slot.kind \notin {"absent", "empty"}

\* ------------------------------------------------------------------- names
END == "__end__"

valid_intents ==
  {"profile_analyzer_agent", "job_fit_agent", "content_enhancer_agent", "career_coach_agent"}

NodeNames == valid_intents \cup {"intent_classifier_agent"}

\* The keys declared by the State TypedDict.
StateKeys ==
  {"profile_url", "session_id", "command", "user_question", "job_description",
   "profile", "analysis", "job_fit", "enhanced_content", "coaching",
   "chat_history", "error"}

\* Keys the nodes and the router use; the last two are not declared by State.
AllKeys == StateKeys \cup {"intent_classification", "force_end"}

ResultSlots == {"coaching", "analysis", "job_fit", "enhanced_content"}

SessionId == "session-1"

\* ----------------------------------------------------------------- router
\* Variants of the router's tests, each a slip the code could have made.
SlotPresent(state, k) == PresentAndTruthy(state[k])

CoachingSlotAnswers(state, k) ==
  /\ k = "coaching"
  /\ PresentAndTruthy(state[k])
  /\ DictGet(state[k].user_question) = DictGet(state.user_question)

\* One of the four `k in state and state[k] and state[k].get("user_question")
\* == state.get("user_question")` disjuncts.
SlotAnswers(state, k) ==
  /\ PresentAndTruthy(state[k])
  /\ DictGet(state[k].user_question) = DictGet(state.user_question)

ForceEndOnly(state) == Truthy(state.force_end)

\* "error" in state or state.get("force_end")
ErrorOrForceEnd(state) == state.error # NoKey \/ Truthy(state.force_end)

HasClassification(state) == PresentAndTruthy(state.intent_classification)

\* "intent_classification" in state and state["intent_classification"], then
\* `intent = state["intent_classification"].get("intent")` and `if intent:`.
HasIntent(state) ==
  /\ PresentAndTruthy(state.intent_classification)
  /\ Truthy(state.intent_classification.intent)

DefaultToClassifier == "intent_classifier_agent"

\* The last line of router: the handler when there is no usable classification.
DefaultAgent == "career_coach_agent"

router(state) ==
  IF ErrorOrForceEnd(state)
  THEN END
  ELSE IF /\ DictGet(state.command) = "chat"
          /\ \/ SlotAnswers(state, "coaching")
             \/ SlotAnswers(state, "analysis")
             \/ SlotAnswers(state, "job_fit")
             \/ SlotAnswers(state, "enhanced_content")
  THEN END
  ELSE IF HasIntent(state)
  THEN state.intent_classification.intent
  ELSE DefaultAgent

\* --------------------------------------------------- completion collaborator
\* What one call of self.llm.invoke does: it raises, or it returns a text.
\* A classifier text is described by what json parsing makes of it.
CompletionError == "completion call failed"

ClassifierCompletions ==
  {[kind |-> "raise", parse |-> Missing, intent |-> Missing, confidence |-> -1],
   [kind |-> "text", parse |-> "nojson", intent |-> Missing, confidence |-> -1],
   [kind |-> "text", parse |-> "nonobject", intent |-> Missing, confidence |-> -1],
   [kind |-> "text", parse |-> "object", intent |-> Missing, confidence |-> 95],
   [kind |-> "text", parse |-> "object", intent |-> "intent_classifier_agent", confidence |-> 95]}
  \cup {[kind |-> "text", parse |-> "object", intent |-> i, confidence |-> c] :
          i \in valid_intents, c \in {-1, 95}}

HandlerCompletions ==
  {[kind |-> "raise", content |-> ""],
   [kind |-> "text", content |-> "Here is my advice."],
   [kind |-> "text", content |-> "  "]}

\* str.strip() on the texts of HandlerCompletions.
Strip(text) == IF text = "  " THEN "" ELSE text

\* ------------------------------------------------------------- questions
Questions == {"Analyze my strengths", "How well do I match?", "Give me career advice"}

\* The questions classify_intent is applied to on its own: the three above,
\* the empty question, and questions whose keywords fall in several groups.
ClassifierQuestions ==
  Questions \cup
  {"", "Improve my headline", "What are my job requirements?",
   "Rewrite it to match the role", "ANALYZE MY SCORE AND ENHANCE IT",
   "Make my about section better"}

\* The prompts typed into st.chat_input: one with keywords, one without.
Prompts == {"Analyze my strengths", "Give me career advice"}

\* str.lower() on the questions.
Lower(q) ==
  CASE q = "Analyze my strengths" -> "analyze my strengths"
    [] q = "How well do I match?" -> "how well do i match?"
    [] q = "Give me career advice" -> "give me career advice"
    [] q = "Improve my headline" -> "improve my headline"
    [] q = "What are my job requirements?" -> "what are my job requirements?"
    [] q = "Rewrite it to match the role" -> "rewrite it to match the role"
    [] q = "ANALYZE MY SCORE AND ENHANCE IT" -> "analyze my score and enhance it"
    [] q = "Make my about section better" -> "make my about section better"
    [] OTHER -> q

profile_keywords == {"analyze", "strengths", "weaknesses", "profile analysis", "what are my"}
job_fit_keywords == {"job fit", "match", "requirements", "score", "how well", "fit for", "qualify"}
content_keywords ==
  {"rewrite", "enhance", "improve", "about section", "headline", "experience", "make my", "better"}

\* `word in question`: the keywords occurring in each text, the questions as
\* typed and lower-cased.
KeywordsIn(question) ==
  CASE question = "analyze my strengths" -> {"analyze", "strengths"}
    [] question = "Analyze my strengths" -> {"strengths"}
    [] question = "how well do i match?" -> {"match", "how well"}
    [] question = "How well do I match?" -> {"match"}
    [] question = "improve my headline" -> {"improve", "headline"}
    [] question = "Improve my headline" -> {"headline"}
    [] question = "what are my job requirements?" -> {"what are my", "requirements"}
    [] question = "What are my job requirements?" -> {"requirements"}
    [] question = "rewrite it to match the role" -> {"rewrite", "match"}
    [] question = "Rewrite it to match the role" -> {"match"}
    [] question = "analyze my score and enhance it" -> {"analyze", "score", "enhance"}
    [] question = "make my about section better" -> {"about section", "make my", "better"}
    [] question = "Make my about section better" -> {"about section", "better"}
    [] OTHER -> {}

\* any(word in question for word in words)
AnyIn(words, question) == (words \cap KeywordsIn(question)) # {}

Classification(intent, confidence, reasoning, session_id) ==
  [kind |-> "dict", intent |-> intent, confidence |-> confidence,
   reasoning |-> reasoning, session_id |-> session_id, success |-> PyTrue]

_fallback_job_fit_first(user_question, session_id) ==
  LET question == Lower(user_question) IN
  IF AnyIn(job_fit_keywords, question)
  THEN Classification("job_fit_agent", 70,
                      "Fallback: Contains job fit keywords", session_id)
  ELSE IF AnyIn(profile_keywords, question)
  THEN Classification("profile_analyzer_agent", 70,
                      "Fallback: Contains profile analysis keywords", session_id)
  ELSE IF AnyIn(content_keywords, question)
  THEN Classification("content_enhancer_agent", 70,
                      "Fallback: Contains content enhancement keywords", session_id)
  ELSE Classification("career_coach_agent", 50,
                      "Fallback: Defaulted to career coach", session_id)

_fallback_classification(user_question, session_id) ==
  LET question == Lower(user_question) IN
  IF AnyIn(profile_keywords, question)
  THEN Classification("profile_analyzer_agent", 70,
                      "Fallback: Contains profile analysis keywords", session_id)
  ELSE IF AnyIn(job_fit_keywords, question)
  THEN Classification("job_fit_agent", 70,
                      "Fallback: Contains job fit keywords", session_id)
  ELSE IF AnyIn(content_keywords, question)
  THEN Classification("content_enhancer_agent", 70,
                      "Fallback: Contains content enhancement keywords", session_id)
  ELSE Classification("career_coach_agent", 50,
                      "Fallback: Defaulted to career coach", session_id)

classify_intent_unguarded(user_question, session_id, completion) ==
  IF completion.kind = "raise"
  THEN [kind |-> "raised", error |-> CompletionError]
  ELSE IF completion.parse = "nojson"
  THEN _fallback_classification(user_question, session_id)
  ELSE IF completion.parse = "nonobject"
  THEN [kind |-> "raised", error |-> "'int' object has no attribute 'get'"]
  ELSE IF completion.intent \notin valid_intents
  THEN Classification("career_coach_agent", 50,
                      "Defaulted to career coach due to unclear intent", session_id)
  ELSE Classification(completion.intent,
                      IF completion.confidence = -1 THEN 80 ELSE completion.confidence,
                      "Classified based on question content", session_id)

classify_intent_invalid_to_keywords(user_question, session_id, completion) ==
  IF completion.kind = "raise" \/ completion.parse \in {"nojson", "nonobject"}
  THEN _fallback_classification(user_question, session_id)
  ELSE IF completion.intent \notin valid_intents
  THEN _fallback_classification(user_question, session_id)
  ELSE Classification(completion.intent,
                      IF completion.confidence = -1 THEN 80 ELSE completion.confidence,
                      "Classified based on question content", session_id)

\* Confidences are in hundredths (0.7 is 70).
classify_intent(user_question, session_id, completion) ==
  IF completion.kind = "raise"
  THEN _fallback_classification(user_question, session_id)
  ELSE IF completion.parse = "nojson"
  THEN _fallback_classification(user_question, session_id)
  ELSE IF completion.parse = "nonobject"
  \* result.get raises AttributeError, caught by the outer except
  THEN _fallback_classification(user_question, session_id)
  ELSE IF completion.intent \notin valid_intents
  THEN Classification("career_coach_agent", 50,
                      "Defaulted to career coach due to unclear intent", session_id)
  ELSE Classification(completion.intent,
                      IF completion.confidence = -1 THEN 80 ELSE completion.confidence,
                      "Classified based on question content", session_id)

\* ---------------------------------------------------------------- profile
\* A Profile Record as sanitize_profile returns it.  The scraped skills are
\* strings or dictionaries (the actor's own shape); the other lists are kept short.
Profiles ==
  {[name |-> "Ada", about |-> "Engineer", skills |-> <<"Python", "SQL">>],
   [name |-> "Ada", about |-> "Engineer", skills |-> <<"<dict>">>]}

NoProfile == [name |-> "", about |-> "", skills |-> <<>>]

\* ', '.join(skills) raises TypeError when an item is not a string.
JoinRaises(skills) == \E i \in 1..Len(skills) : skills[i] = "<dict>"

\* ---------------------------------------------------------------- handlers
\* A handler returns a dictionary, or raises (kind "raised") to its node.
ChatResult(message, answer, type, session_id, user_question, success, error) ==
  [kind |-> "dict", message |-> message, answer |-> answer, type |-> type,
   session_id |-> session_id, user_question |-> user_question,
   success |-> success, error |-> error]

\* The structured (non-chat) result of a handler: it has none of the chat keys.
BatchResult ==
  [kind |-> "dict", message |-> Missing, answer |-> Missing, type |-> Missing,
   session_id |-> Missing, user_question |-> Missing,
   success |-> Missing, error |-> Missing]

Raised(msg) == [kind |-> "raised", error |-> msg]

ProfileApology ==
  "I apologize, but I encountered an issue analyzing your profile. Please try rephrasing your question."
JobFitApology ==
  "I apologize, but I encountered an issue analyzing your job fit. Please try rephrasing your question."
EnhancerApology ==
  "I apologize, but I encountered an issue enhancing your content. Please try rephrasing your question."
CoachApology ==
  "I apologize, but I encountered a technical issue. Please try rephrasing your question or ask something else about your career development."

_handle_chat_analysis(profile, user_question, session_id, completion) ==
  IF completion.kind = "text"
  THEN ChatResult(Strip(completion.content), Missing, "profile_analysis",
                  session_id, user_question, PyTrue, Missing)
  ELSE ChatResult(ProfileApology, Missing, "error",
                  session_id, Missing, PyFalse, CompletionError)

_handle_chat_job_fit(profile, job_description, user_question, session_id, completion) ==
  IF completion.kind = "text"
  THEN ChatResult(Strip(completion.content), Missing, "job_fit_analysis",
                  session_id, user_question, PyTrue, Missing)
  ELSE ChatResult(JobFitApology, Missing, "error",
                  session_id, Missing, PyFalse, CompletionError)

_handle_chat_enhancement(profile, user_question, session_id, completion) ==
  IF completion.kind = "text"
  THEN ChatResult(Strip(completion.content), Missing, "content_enhancement",
                  session_id, user_question, PyTrue, Missing)
  ELSE ChatResult(EnhancerApology, Missing, "error",
                  session_id, Missing, PyFalse, CompletionError)

_handle_chat_interaction(profile, job_description, user_question, session_id, completion) ==
  IF JoinRaises(profile.skills)
  \* the user prompt is built before the try block
  THEN Raised("sequence item 0: expected str instance, dict found")
  ELSE IF completion.kind = "text"
  THEN ChatResult(Strip(completion.content), Strip(completion.content), "chat_response",
                  session_id, user_question, PyTrue, Missing)
  ELSE ChatResult(CoachApology, CoachApology, "error",
                  session_id, Missing, PyFalse, CompletionError)

\* The agents' entry points: chat mode when a question is given.
ProfileAnalyzerAgent_analyze(profile, session_id, user_question, completion) ==
  IF Truthy(user_question)
  THEN _handle_chat_analysis(profile, user_question, session_id, completion)
  ELSE BatchResult

JobFitAgent_analyze(profile, job_description, session_id, user_question, completion) ==
  IF Truthy(user_question)
  THEN _handle_chat_job_fit(profile, job_description, user_question, session_id, completion)
  ELSE BatchResult

ContentEnhancerAgent_enhance(profile, session_id, user_question, completion) ==
  IF Truthy(user_question)
  THEN _handle_chat_enhancement(profile, user_question, session_id, completion)
  ELSE BatchResult

CareerCoachAgent_coach(profile, job_description, session_id, user_question, completion) ==
  IF Truthy(user_question)
  THEN _handle_chat_interaction(profile, job_description, user_question, session_id, completion)
  ELSE IF JoinRaises(profile.skills)
  THEN Raised("sequence item 0: expected str instance, dict found")
  ELSE BatchResult

\* -------------------------------------------------------------- TurnState
\* The empty mapping: no key is present.
EmptyState ==
  [profile_url |-> NoKey, session_id |-> NoKey, command |-> NoKey,
   user_question |-> NoKey, job_description |-> NoKey, profile |-> NoProfile,
   analysis |-> AbsentSlot, job_fit |-> AbsentSlot, enhanced_content |-> AbsentSlot,
   coaching |-> AbsentSlot, chat_history |-> <<>>, error |-> NoKey,
   intent_classification |-> AbsentSlot, force_end |-> NoKey]

\* state.get(k, default) for a string-valued key.
GetOr(v, default) == IF v = NoKey THEN default ELSE v

\* ------------------------------------------------------------------ nodes
\* Each node function, once the shared agents exist: the partial mapping it
\* returns for the current state and the outcome of its completion call.
NodeReturn(key, result) ==
  IF result.kind = "raised" THEN "error" :> result.error ELSE key :> result

profile_analyzer_node(state, completion) ==
  NodeReturn("analysis",
    ProfileAnalyzerAgent_analyze(state.profile, GetOr(state.session_id, ""),
                                 GetOr(state.user_question, ""), completion))

job_fit_node(state, completion) ==
  NodeReturn("job_fit",
    JobFitAgent_analyze(state.profile, GetOr(state.job_description, ""),
                        GetOr(state.session_id, ""),
                        GetOr(state.user_question, ""), completion))

content_enhancer_node(state, completion) ==
  NodeReturn("enhanced_content",
    ContentEnhancerAgent_enhance(state.profile, GetOr(state.session_id, ""),
                                 GetOr(state.user_question, ""), completion))

career_coach_node(state, completion) ==
  NodeReturn("coaching",
    CareerCoachAgent_coach(state.profile, GetOr(state.job_description, ""),
                           GetOr(state.session_id, ""),
                           GetOr(state.user_question, ""), completion))

intent_classifier_node(state, completion) ==
  "intent_classification" :>
    classify_intent(GetOr(state.user_question, ""), GetOr(state.session_id, ""), completion)

\* The completion outcomes a node can meet.
CompletionsOf(node) ==
  IF node = "intent_classifier_agent" THEN ClassifierCompletions ELSE HandlerCompletions

\* graph.add_node: the function registered under each node name.
NodeFunction(node, state, completion) ==
  CASE node = "intent_classifier_agent" -> intent_classifier_node(state, completion)
    [] node = "profile_analyzer_agent" -> profile_analyzer_node(state, completion)
    [] node = "job_fit_agent" -> job_fit_node(state, completion)
    [] node = "content_enhancer_agent" -> content_enhancer_node(state, completion)
    [] node = "career_coach_agent" -> career_coach_node(state, completion)

\* ----------------------------------------------------------------- engine
\* StateGraph(State): the graph state has one channel per key State declares.
\* A node's returned key is written to its channel (the last value wins); a
\* returned key without a channel is not written.
Merge(state, update) ==
  [k \in AllKeys |->
     IF k \in DOMAIN update /\ k \in StateKeys THEN update[k] ELSE state[k]]

InvokeInputCheckpointed(previous, input) == Merge(previous, input)

\* graph.compile() is given no checkpointer: an invocation starts from empty
\* channels, whatever state the previous invocation ended in.
InvokeInput(previous, input) == Merge(EmptyState, input)

\* graph.invoke is called without a recursion_limit: the engine's default
\* number of steps, after which it raises GraphRecursionError.
RecursionLimit == 25

RecursionMessage == "Recursion limit of 25 reached without hitting a stop condition."
UnknownNodeMessage == "router returned a name that is no node of the graph"
NeverOutOfSteps(steps) == FALSE

\* The step limit is reached after `steps` node invocations.
OutOfSteps(steps) == steps >= RecursionLimit

NoApiKeyMessage == "OPENAI_API_KEY not found in secrets or environment variables"

\* ------------------------------------------------------------ application
VARIABLES
  chat_history,       \* st.session_state["chat_history"]
  processing_prompt,  \* st.session_state.processing_prompt
  profile_loaded,     \* st.session_state["profile_loaded"]
  profile,            \* st.session_state["profile"]
  job_desc,           \* st.session_state["job_desc"]
  graph,              \* st.session_state["graph"]: None or the compiled graph
  agents,             \* the module-level agents of graph_utils exist
  api_key,            \* OPENAI_API_KEY is configured
  pc,                 \* where the script is: waiting, rerun, invoke, returned, raised
  state,              \* the graph state of the running invocation, then the state it ended in
  node,               \* the node the engine runs next
  exc,                \* the message of the exception graph.invoke raised
  invoked,            \* the nodes invoked in this turn, in order
  decisions,          \* what router returned after each of them
  failures,           \* per invocation: its completion call was made and failed
  classified,         \* the intent the classifier returned in this turn
  turns,              \* prompts submitted so far
  loads,              \* profile loads requested so far
  notice,             \* the st.warning / st.error text the last script run left on the page
  ustate,             \* a function applied on its own: its argument
  uout                \* a function applied on its own: the call and its return

appVars ==
  <<chat_history, processing_prompt, profile_loaded, profile, job_desc, graph,
    agents, api_key, pc, state, node, exc, invoked, decisions, failures,
    classified, turns, loads, notice>>

unitVars == <<ustate, uout>>

vars == <<appVars, unitVars>>

Message(role, content) == [role |-> role, content |-> content]

\* normalize_chat_history: every message of the session is a dict and is kept.
normalize_chat_history(history) == [i \in 1..Len(history) |-> history[i]]

ResetToMessage(history, message) == <<message>>

\* st.session_state.chat_history.append(message)
AppendMessage(history, message) == Append(history, message)

ProfileUrls == {"", "https://www.linkedin.com/in/ada"}
JobDescriptions == {"", "Senior Backend Engineer"}

\* What fetch_linkedin_profile does: it raises, or returns a sanitized record
\* (whose name may be empty).
FetchOutcomes ==
  {[kind |-> "raise", data |-> NoProfile], [kind |-> "record", data |-> NoProfile]}
  \cup {[kind |-> "record", data |-> p] : p \in Profiles}

WelcomeMessage(name, jd) ==
  "Welcome, " \o name \o "! I've successfully loaded your LinkedIn profile. "
  \o "I'm ready to help you optimize your career path for the " \o jd \o " role."

AppInit ==
  /\ chat_history = <<>>
  /\ processing_prompt = None
  /\ profile_loaded = FALSE
  /\ profile = NoProfile
  /\ job_desc = ""
  /\ graph = None
  /\ agents = FALSE
  /\ api_key \in BOOLEAN
  /\ pc = "waiting"
  /\ notice = None
  /\ state = EmptyState
  /\ node = None
  /\ exc = None
  /\ invoked = <<>>
  /\ decisions = <<>>
  /\ failures = <<>>
  /\ classified = None
  /\ turns = 0
  /\ loads = 0

UnitIdle == ustate = EmptyState /\ uout = [fn |-> None]

Init == AppInit /\ UnitIdle

NoticeMissingInput == "Please enter both LinkedIn URL and job description."
NoticeScrapeFailed ==
  "Could not scrape the profile. Please check the URL and ensure the profile is public."
FetchErrorMessage == "Scraping failed: Could not fetch results from any dataset URL"
NoticeLoadError == "An error occurred while loading the profile: " \o FetchErrorMessage

FetchRaised(fetched) == fetched.kind = "raise"

\* The load stops short: fetch_linkedin_profile raised, or
\* `not profile_data or not profile_data.get("name")`.
FetchFailed(fetched) == fetched.kind = "raise" \/ fetched.data.name = ""

\* The "Load Profile & Start Chat" button.
LoadProfile(profile_url, jd, fetched) ==
  /\ pc = "waiting"
  /\ loads < MaxLoads
  /\ loads' = loads + 1
  /\ IF profile_url = "" \/ jd = ""
     THEN /\ notice' = NoticeMissingInput
          /\ UNCHANGED <<job_desc, profile, profile_loaded, graph, chat_history>>
     ELSE /\ job_desc' = jd
          /\ IF FetchFailed(fetched)
             THEN /\ notice' = IF fetched.kind = "raise"
                               THEN NoticeLoadError ELSE NoticeScrapeFailed
                  /\ UNCHANGED <<profile, profile_loaded, graph, chat_history>>
             ELSE /\ profile' = fetched.data
                  /\ profile_loaded' = TRUE
                  /\ graph' = "compiled"
                  /\ chat_history' =
                       AppendMessage(chat_history,
                         Message("assistant", WelcomeMessage(fetched.data.name, jd)))
                  \* st.rerun() follows st.success: the next run shows no notice
                  /\ notice' = None
  /\ UNCHANGED <<processing_prompt, agents, api_key, pc, state, node, exc,
                 invoked, decisions, failures, classified, turns, unitVars>>

\* st.chat_input returned a prompt.  The widget is evaluated in every script
\* run, before the processing block, and nothing looks at processing_prompt:
\* a prompt that arrives while an earlier one still awaits its run ("rerun")
\* is appended and takes its place.  During graph.invoke the script reaches no
\* Streamlit call, so a prompt typed then is taken up after the turn.
SubmitPrompt(prompt) ==
  /\ pc \in {"waiting", "rerun"}
  /\ profile_loaded
  /\ turns < MaxTurns
  /\ turns' = turns + 1
  /\ chat_history' = AppendMessage(chat_history, Message("user", prompt))
  /\ processing_prompt' = prompt
  /\ pc' = "rerun"
  /\ notice' = None
  /\ UNCHANGED <<profile_loaded, profile, job_desc, graph, agents, api_key, state,
                 node, exc, invoked, decisions, failures, classified, loads, unitVars>>

\* The state the application sends to the graph for a prompt.
chat_state(prompt) ==
  [k \in {"command", "user_question", "session_id", "chat_history",
          "job_description", "profile"} |->
     CASE k = "command" -> "chat"
       [] k = "user_question" -> prompt
       [] k = "session_id" -> SessionId
       [] k = "chat_history" -> normalize_chat_history(chat_history)
       [] k = "job_description" -> job_desc
       [] k = "profile" -> profile]

\* graph.invoke(chat_state): the input is written to the channels and the
\* entry point is scheduled.
StartTurn ==
  /\ pc = "rerun"
  /\ Truthy(processing_prompt)
  /\ profile_loaded
  /\ graph' = "compiled"
  /\ state' = InvokeInput(state, chat_state(processing_prompt))
  /\ node' = "intent_classifier_agent"
  /\ pc' = "invoke"
  /\ UNCHANGED <<chat_history, processing_prompt, profile_loaded, profile, job_desc,
                 agents, api_key, exc, invoked, decisions, failures, classified,
                 turns, loads, notice, unitVars>>

\* One step of the compiled graph: the scheduled node runs, its return is
\* merged, and the node's conditional edge (router) names the next node.
RunNode(completion) ==
  /\ pc = "invoke"
  /\ UNCHANGED <<chat_history, processing_prompt, profile_loaded, profile, job_desc,
                 graph, api_key, turns, loads, notice, unitVars>>
  /\ IF ~agents /\ ~api_key
     THEN \* _initialize_agents raises ValueError before the node's try block
          /\ pc' = "raised"
          /\ exc' = NoApiKeyMessage
          /\ UNCHANGED <<agents, state, node, invoked, decisions, failures, classified>>
     ELSE LET update == NodeFunction(node, state, completion)
              merged == Merge(state, update)
              decision == router(merged)
          IN /\ agents' = TRUE
             /\ state' = merged
             /\ invoked' = Append(invoked, node)
             /\ decisions' = Append(decisions, decision)
             /\ failures' = Append(failures, completion.kind = "raise"
                                              /\ "error" \notin DOMAIN update)
             /\ classified' =
                  IF node = "intent_classifier_agent"
                  THEN update["intent_classification"].intent
                  ELSE classified
             /\ IF decision = END
                THEN pc' = "returned" /\ UNCHANGED <<node, exc>>
                ELSE IF decision \notin NodeNames
                THEN pc' = "raised" /\ exc' = UnknownNodeMessage /\ UNCHANGED node
                ELSE IF OutOfSteps(Len(invoked) + 1)
                THEN pc' = "raised" /\ exc' = RecursionMessage /\ UNCHANGED node
                ELSE pc' = "invoke" /\ node' = decision /\ UNCHANGED exc

\* result.get(k, {}).get(field) on the dictionary invoke returned.
ResultField(result, k, field) ==
  IF result[k].kind = "absent" THEN None ELSE DictGet(result[k][field])

\* a or b
Or(a, b) == IF Truthy(a) THEN a ELSE b

agent_output_map(intent) ==
  CASE intent = "profile_analyzer_agent" -> "analysis"
    [] intent = "job_fit_agent" -> "job_fit"
    [] intent = "content_enhancer_agent" -> "enhanced_content"
    [] intent = "career_coach_agent" -> "coaching"
    [] OTHER -> None

DefaultResponse == "I understand. Let me provide some insights."

ExtractResponseNoDefault(result, prompt_to_process) ==
  LET intent == IF result.intent_classification.kind = "absent"
                THEN None
                ELSE DictGet(result.intent_classification.intent)
      output_key == agent_output_map(intent)
  IN IF /\ output_key # None
        /\ result[output_key].kind # "absent"
        /\ DictGet(result[output_key].user_question) = prompt_to_process
     THEN Or(DictGet(result[output_key].message), DictGet(result[output_key].answer))
     ELSE None

\* STAGE 2, STEP 3: the response taken from a result without an error.
ExtractResponse(result, prompt_to_process) ==
  LET intent == IF result.intent_classification.kind = "absent"
                THEN None
                ELSE DictGet(result.intent_classification.intent)
      output_key == agent_output_map(intent)
      primary ==
        IF /\ output_key # None
           /\ result[output_key].kind # "absent"
           /\ DictGet(result[output_key].user_question) = prompt_to_process
        THEN Or(DictGet(result[output_key].message), DictGet(result[output_key].answer))
        ELSE None
  IN IF Truthy(primary)
     THEN primary
     ELSE Or(ResultField(result, "coaching", "message"),
          Or(ResultField(result, "coaching", "answer"),
          Or(ResultField(result, "analysis", "message"),
          Or(ResultField(result, "job_fit", "message"),
          Or(ResultField(result, "enhanced_content", "message"),
             DefaultResponse)))))

\* The reply of the turn: from the result, or from the exception caught.
Response ==
  IF pc = "raised"
  THEN "Sorry, I encountered an error: " \o exc
  ELSE IF state.error # NoKey
  THEN "I encountered an error: " \o state.error
  ELSE ExtractResponse(state, processing_prompt)

\* STAGE 2, STEPS 3 and 4: the reply is appended, the prompt is cleared.
FinishTurn ==
  /\ pc \in {"returned", "raised"}
  /\ chat_history' = AppendMessage(chat_history, Message("assistant", Response))
  /\ processing_prompt' = None
  /\ pc' = "waiting"
  \* the record of the turn ends with the script run
  /\ node' = None
  /\ exc' = None
  /\ invoked' = <<>>
  /\ decisions' = <<>>
  /\ failures' = <<>>
  /\ classified' = None
  /\ UNCHANGED <<profile_loaded, profile, job_desc, graph, agents, api_key, state,
                 turns, loads, notice, unitVars>>

Next ==
  \/ \E u \in ProfileUrls, jd \in JobDescriptions, f \in FetchOutcomes : LoadProfile(u, jd, f)
  \/ \E q \in Prompts : SubmitPrompt(q)
  \/ StartTurn
  \/ \E c \in CompletionsOf(node) : RunNode(c)
  \/ FinishTurn

Spec == Init /\ [][Next]_vars

\* ------------------------------------------------- functions on their own
\* router and the node functions applied to arguments drawn from bounded sets.
AppIdle == AppInit /\ api_key

StaleQuestion == "How well do I match?"
SomeQuestion == "Analyze my strengths"

\* The values a result slot of an arbitrary TurnState holds: no key, an empty
\* value, a handler's success result for SomeQuestion, a handler's failure result.
SlotValues ==
  {AbsentSlot, EmptySlot,
   ChatResult("Here is my advice.", Missing, "job_fit_analysis", SessionId,
              SomeQuestion, PyTrue, Missing),
   ChatResult(JobFitApology, Missing, "error", SessionId, Missing, PyFalse,
              CompletionError)}

ClassificationValues ==
  {AbsentSlot, EmptySlot,
   Classification(Missing, 95, "no intent", SessionId),
   Classification("", 95, "empty intent", SessionId),
   Classification("job_fit_agent", 95, "llm", SessionId)}

\* router is applied on its own to the states it can be handed.
InitRouter ==
  /\ AppIdle
  /\ ustate \in
       {[EmptyState EXCEPT !.command = c, !.user_question = q, !.error = e,
                           !.force_end = f, !.intent_classification = ic,
                           !.coaching = s1, !.analysis = s2, !.job_fit = s3,
                           !.enhanced_content = s4] :
          c \in {NoKey, "chat", "analyze"},
          q \in {NoKey, SomeQuestion, StaleQuestion},
          e \in {NoKey, None, "boom"}, f \in {NoKey, PyFalse, PyTrue},
          ic \in ClassificationValues, s1 \in SlotValues, s2 \in SlotValues,
          s3 \in SlotValues, s4 \in SlotValues}
  /\ uout = [fn |-> None]

ApplyRouterMarking ==
  /\ uout.fn = None
  /\ uout' = [fn |-> "router", decision |-> router(ustate)]
  /\ ustate' = [ustate EXCEPT
                  !.force_end = IF router(ustate) = END THEN PyTrue ELSE @]
  /\ UNCHANGED appVars

\* One call router(state): the body reads the state (in, .get, indexing) and
\* assigns nothing into it.
ApplyRouter ==
  /\ uout.fn = None
  /\ uout' = [fn |-> "router", decision |-> router(ustate)]
  /\ UNCHANGED <<ustate, appVars>>

SpecRouter == InitRouter /\ [][ApplyRouter]_vars

\* The states a node function is called on: what the application seeds.
InitNodes ==
  /\ AppIdle
  /\ ustate \in
       {[EmptyState EXCEPT !.command = "chat", !.user_question = q,
                           !.session_id = SessionId, !.job_description = jd,
                           !.profile = p,
                           !.chat_history = <<Message("user", q)>>] :
          q \in Questions, jd \in JobDescriptions, p \in Profiles}
  /\ uout = [fn |-> None]

ApplyNode(n, completion) ==
  /\ uout.fn = None
  /\ uout' = [fn |-> n, failed |-> completion.kind = "raise",
              update |-> NodeFunction(n, ustate, completion)]
  /\ UNCHANGED <<ustate, appVars>>

SpecNodes ==
  InitNodes /\ [][\E n \in NodeNames : \E c \in CompletionsOf(n) : ApplyNode(n, c)]_vars

\* ------------------------------------------------------------ session store
\* The keys the application means to keep between turns.
memory_keys == {"profile", "analysis", "job_fit", "enhanced_content", "coaching"}

\* st.session_state: the keys the script assigns, with their values.
session_state ==
  [session_id |-> SessionId, chat_history |-> chat_history,
   profile_loaded |-> profile_loaded, graph |-> graph,
   processing_prompt |-> processing_prompt, profile |-> profile,
   job_desc |-> job_desc]

\* The last result the session holds for a result slot: st.session_state has
\* it under that key, or has nothing.
LastResult(k) ==
  IF k \in DOMAIN session_state THEN session_state[k] ELSE AbsentSlot

\* classify_intent applied on its own to a question and a completion outcome.
InitClassifier ==
  /\ AppIdle
  /\ ustate \in
       {[EmptyState EXCEPT !.command = "chat", !.user_question = q,
                           !.session_id = SessionId] : q \in ClassifierQuestions}
  /\ uout = [fn |-> None]

ApplyClassify(completion) ==
  /\ uout.fn = None
  /\ uout' = [fn |-> "classify_intent", completion |-> completion,
              result |-> classify_intent(ustate.user_question, ustate.session_id,
                                         completion)]
  /\ UNCHANGED <<ustate, appVars>>

SpecClassifier ==
  InitClassifier /\ [][\E c \in ClassifierCompletions : ApplyClassify(c)]_vars

\* ------------------------------------------------- conversation context
\* _build_conversation_context applied on its own.  A message content is a
\* sequence of characters here, so that the slice [:150] is computed; the
\* string ' | '.join(context_parts) is kept as the list of its parts.
MaxHistory == 7
ContextWindow == 6
ContentLimit == 150

Min(a, b) == IF a <= b THEN a ELSE b

LongContent == [i \in 1..ContentLimit + 1 |-> IF i > ContentLimit THEN "z" ELSE "a"]
ShortContent == <<"h", "i">>

BeginningText == "This is the beginning of our conversation."

all_messages(history) == history

\* chat_history[-6:]
recent_messages(history) ==
  SubSeq(history, Len(history) - Min(ContextWindow, Len(history)) + 1,
         Len(history))

\* content[:150]
Truncate(content) == SubSeq(content, 1, Min(ContentLimit, Len(content)))

\* The label a builder writes before an assistant message.
AssistantLabel(agent) == IF agent = "career_coach_agent" THEN "Coach" ELSE "Assistant"

RECURSIVE context_parts(_, _)
context_parts(agent, messages) ==
  IF messages = <<>>
  THEN <<>>
  ELSE LET msg == Head(messages)
           content == Truncate(msg.content)
           part == IF msg.role = "user"
                   THEN <<[label |-> "User", content |-> content]>>
                   ELSE IF msg.role = "assistant"
                   THEN <<[label |-> AssistantLabel(agent), content |-> content]>>
                   ELSE <<>>
       IN part \o context_parts(agent, Tail(messages))

\* The builder of one of the four agents (they differ in the assistant label).
_build_conversation_context(agent, history) ==
  IF history = <<>>
  THEN [kind |-> "text", text |-> BeginningText]
  ELSE LET parts == context_parts(agent, recent_messages(history))
       IN IF parts = <<>>
          THEN [kind |-> "text", text |-> BeginningText]
          ELSE [kind |-> "parts", parts |-> parts]

\* The builder is applied to every history of up to MaxHistory messages over a
\* long question, a short reply, and a message that is neither's role.
InitContext ==
  /\ AppIdle
  /\ ustate \in
       {[EmptyState EXCEPT !.command = "chat", !.chat_history = h] :
          h \in UNION {[1..n -> {Message("user", LongContent),
                                 Message("assistant", ShortContent),
                                 Message("system", ShortContent)}] :
                         n \in 0..MaxHistory}}
  /\ uout = [fn |-> None]

ApplyContext(agent) ==
  /\ uout.fn = None
  /\ uout' = [fn |-> "_build_conversation_context", agent |-> agent,
              result |-> _build_conversation_context(agent, ustate.chat_history)]
  /\ UNCHANGED <<ustate, appVars>>

SpecContext == InitContext /\ [][\E a \in valid_intents : ApplyContext(a)]_vars

\* ------------------------------------------------------- profile summary
\* The experience and education lines a chat handler writes into its user
\* prompt.  A line joined with '; ' is kept as the list of its parts.
MaxExperience == 4
MaxEducation == 3

\* exp.get(key, default)
GetDefault(v, default) == IF v = Missing THEN default ELSE v

\* One entry of _format_experience's list.
ExperienceText(exp) ==
  IF exp.kind = "dict"
  THEN GetDefault(exp.title, "Unknown Position") \o " at "
       \o GetDefault(exp.company, "Unknown Company")
  ELSE exp.text

_format_experience(experience) ==
  IF experience = <<>>
  THEN [kind |-> "text", text |-> "No experience data provided"]
  ELSE [kind |-> "parts",
        parts |-> [i \in 1..Min(3, Len(experience)) |-> ExperienceText(experience[i])]]

\* f"{degree} from {school}".strip()
EducationText(edu) ==
  IF edu.degree = "" THEN "from " \o edu.school
  ELSE IF edu.school = "" THEN edu.degree \o " from"
  ELSE edu.degree \o " from " \o edu.school

RECURSIVE EducationFormatted(_)
EducationFormatted(education) ==
  IF education = <<>>
  THEN <<>>
  ELSE LET edu == Head(education)
       IN (IF edu.degree # "" \/ edu.school # "" THEN <<EducationText(edu)>> ELSE <<>>)
          \o EducationFormatted(Tail(education))

_format_education(education) ==
  IF education = <<>>
  THEN [kind |-> "text", text |-> "No education data provided"]
  ELSE LET formatted == EducationFormatted(education)
       IN [kind |-> "parts", parts |-> SubSeq(formatted, 1, Min(2, Len(formatted)))]

\* The profile lines of the user prompt of each chat handler: the career coach
\* formats experience and education, the other three interpolate the
\* experience list itself (every entry, as Python prints it) and have no
\* education line.
user_prompt_profile(agent, profile_record) ==
  IF agent = "career_coach_agent"
  THEN [experience |-> _format_experience(profile_record.experience),
        education |-> _format_education(profile_record.education)]
  ELSE [experience |-> [kind |-> "repr", items |-> profile_record.experience],
        education |-> [kind |-> "none"]]

\* The prompt is built for profiles whose entries are as the actor scrapes
\* them: dictionaries (a key may be missing or empty) or strings.
InitPrompt ==
  /\ AppIdle
  /\ ustate \in
       {[EmptyState EXCEPT
           !.command = "chat", !.user_question = SomeQuestion,
           !.profile = [name |-> "Ada", about |-> "Engineer",
                        skills |-> <<"Python">>, experience |-> e,
                        education |-> d]] :
          e \in UNION {[1..n -> {[kind |-> "dict", title |-> "Engineer", company |-> "Acme"],
                                 [kind |-> "dict", title |-> Missing, company |-> "Initech"],
                                 [kind |-> "str", text |-> "Freelance work"]}] :
                         n \in 0..MaxExperience},
          d \in UNION {[1..n -> {[kind |-> "dict", degree |-> "BSc", school |-> "MIT"],
                                 [kind |-> "dict", degree |-> "", school |-> "MIT"],
                                 [kind |-> "dict", degree |-> "", school |-> ""]}] :
                         n \in 0..MaxEducation}}
  /\ uout = [fn |-> None]

ApplyPrompt(agent) ==
  /\ uout.fn = None
  /\ uout' = [fn |-> "user_prompt", agent |-> agent,
              result |-> user_prompt_profile(agent, ustate.profile)]
  /\ UNCHANGED <<ustate, appVars>>

SpecPrompt == InitPrompt /\ [][\E a \in valid_intents : ApplyPrompt(a)]_vars

\* ------------------------------------------------------- linkedin scraper
\* The scraper's exception type and the built-in one _get_apify_token raises.
LinkedInScraperError == "LinkedInScraperError"
ValueError == "ValueError"

Raise(type, message, requests) ==
  [kind |-> "raise", type |-> type, message |-> message, requests |-> requests]

\* What the three patterns of validate_linkedin_url make of the URLs a caller
\* passes, after strip(): https only, linkedin.com/in/<id>, www optional.
validate_linkedin_url(url) ==
  url \in {"https://www.linkedin.com/in/ada",
           " https://linkedin.com/in/ada/details/skills "}

\* clean_linkedin_url: strip, keep up to the profile id, end with a slash.
clean_linkedin_url(url) ==
  CASE url = "https://www.linkedin.com/in/ada" -> "https://www.linkedin.com/in/ada/"
    [] url = " https://linkedin.com/in/ada/details/skills " -> "https://linkedin.com/in/ada/"
    [] url = "http://www.linkedin.com/in/ada" -> "http://www.linkedin.com/in/ada/"
    [] OTHER -> url

\* _get_apify_token: the token, or ValueError when there is none.
_get_apify_token(token) ==
  IF ~Truthy(token)
  THEN Raise(ValueError,
             "APIFY_API_TOKEN not found in secrets or environment variables", 0)
  ELSE [kind |-> "token", token |-> token]

POSSIBLE_ACTOR_IDS == <<"2SyF0bVxmgGr8IVCZ", "VhxlqQXRwhW8H5hNV">>

RunId(i) == "run-" \o POSSIBLE_ACTOR_IDS[i]

\* The requests made for one actor: the existence GET, then the schema GET of
\* create_actor_payload and the POST of test_actor_with_payload.
ActorRequests(answer) == IF answer.exists = "200" THEN 3 ELSE 1

\* test_actor_with_payload succeeds on 201 only; an actor is tried only when
\* its existence GET answered 200.
ActorAccepts(answer) == answer.exists = "200" /\ answer.start = "201"

RECURSIVE TryActors(_, _, _)
TryActors(i, actors, requests) ==
  IF i > Len(POSSIBLE_ACTOR_IDS)
  THEN Raise(LinkedInScraperError, "No working actor found", requests)
  ELSE IF ActorAccepts(actors[i])
  THEN [kind |-> "dict", success |-> TRUE, actor_id |-> POSSIBLE_ACTOR_IDS[i],
        run_id |-> RunId(i), requests |-> requests + ActorRequests(actors[i])]
  ELSE TryActors(i + 1, actors, requests + ActorRequests(actors[i]))

\* find_working_actor_and_payload: _get_apify_token() raises ValueError for a
\* missing token, so the function's own "if not ...: raise LinkedInScraperError"
\* never runs; with a token the actors are tried in order.
find_working_actor_and_payload(linkedin_url, token, actors) ==
  IF _get_apify_token(token).kind = "raise"
  THEN _get_apify_token(token)
  ELSE TryActors(1, actors, 0)

\* Items of a run's dataset, with the keys sanitize_profile looks at for the
\* name, the about text and the skills. A text key that is absent is Missing;
\* a list key that is absent or empty is <<>> (both are falsy).
RawItem(fullName, firstName, lastName, about, summary, skills, skillsAndEndorsements) ==
  [fullName |-> fullName, firstName |-> firstName, lastName |-> lastName,
   about |-> about, summary |-> summary, skills |-> skills,
   skillsAndEndorsements |-> skillsAndEndorsements]

RawAda ==
  RawItem("Ada Lovelace", "Ada", "Lovelace", "Engineer", Missing,
          <<"Python", "SQL">>, <<>>)
RawSplitName ==
  RawItem(Missing, "Ada", "Lovelace", Missing, "Engineer", <<>>, <<"<dict>">>)
RawBlankName == RawItem(Missing, "", "", "Engineer", Missing, <<>>, <<>>)
RawEmpty == RawItem(Missing, Missing, Missing, Missing, Missing, <<>>, <<>>)

\* The first truthy value among a target's possible keys, else the default.
RECURSIVE FirstTruthyText(_)
FirstTruthyText(values) ==
  IF values = <<>> THEN ""
  ELSE IF Truthy(Head(values)) THEN Head(values)
  ELSE FirstTruthyText(Tail(values))

RECURSIVE FirstTruthyList(_)
FirstTruthyList(values) ==
  IF values = <<>> THEN <<>>
  ELSE IF Head(values) # <<>> THEN Head(values)
  ELSE FirstTruthyList(Tail(values))

\* f"{first_name} {last_name}".strip() for the names the items carry.
CombinedName(first_name, last_name) ==
  IF first_name = "" /\ last_name = "" THEN ""
  ELSE IF last_name = "" THEN first_name
  ELSE IF first_name = "" THEN last_name
  ELSE first_name \o " " \o last_name

sanitize_profile(item) ==
  LET name == FirstTruthyText(<<item.fullName, item.firstName, item.lastName>>)
  IN [name |-> IF name = "" /\ item.firstName # Missing
               THEN CombinedName(GetDefault(item.firstName, ""),
                                 GetDefault(item.lastName, ""))
               ELSE name,
      about |-> FirstTruthyText(<<item.about, item.summary>>),
      skills |-> FirstTruthyList(<<item.skills, item.skillsAndEndorsements>>)]

\* What wait_for_run_completion returns.
NoReturn == [kind |-> "none"]
WaitSuccess(data) ==
  [kind |-> "dict", success |-> TRUE, data |-> data, error |-> Missing]
WaitFailure(error) ==
  [kind |-> "dict", success |-> FALSE, data |-> Missing, error |-> error]

max_wait == 180
poll_interval == 10

\* One dataset request: it raises, or answers a status code and a JSON list.
DatasetAnswers ==
  {[kind |-> "raise"], [kind |-> "http", code |-> 404, data |-> <<>>],
   [kind |-> "http", code |-> 200, data |-> <<>>],
   [kind |-> "http", code |-> 200, data |-> <<RawAda, RawEmpty>>],
   [kind |-> "http", code |-> 200, data |-> <<RawSplitName>>],
   [kind |-> "http", code |-> 200, data |-> <<RawBlankName, RawAda>>]}

\* The two dataset URLs wait_for_run_completion tries, in order.
DatasetUrls == 1..2

\* One status request: it raises (the request or raise_for_status), or answers
\* the run's status with the id of its dataset and what the dataset URLs hold.
StatusRaises == [kind |-> "raise"]
StatusAnswer(status, dataset_id, datasets) ==
  [kind |-> "status", status |-> status, dataset_id |-> dataset_id,
   datasets |-> datasets]

NonTerminalAnswers ==
  {StatusRaises} \cup
  {StatusAnswer(s, None, <<>>) : s \in {"READY", "RUNNING", None}}

FailureStatuses == {"FAILED", "ABORTED", "TIMED-OUT"}

TerminalAnswers ==
  {StatusAnswer(s, None, <<>>) : s \in FailureStatuses}
  \cup {StatusAnswer("SUCCEEDED", None, <<>>)}
  \cup {StatusAnswer("SUCCEEDED", "dataset-1", ds) : ds \in [DatasetUrls -> DatasetAnswers]}

\* A dataset answer the loop over the dataset URLs returns from.
HasData(answer) ==
  answer.kind = "http" /\ answer.code = 200 /\ Len(answer.data) > 0

RECURSIVE FetchDataset(_, _)
FetchDataset(i, datasets) ==
  IF i > Len(datasets)
  THEN WaitFailure("Could not fetch results from any dataset URL")
  ELSE IF HasData(datasets[i]) THEN WaitSuccess(datasets[i].data[1])
  ELSE FetchDataset(i + 1, datasets)

\* The failure statuses with only FAILED among them.
IsFailedOnly(status) == status = "FAILED"

IsFailureStatus(status) == status \in FailureStatuses

\* What one pass of the polling loop returns for a status answer, NoReturn
\* when the loop goes on.
PollReturn(answer) ==
  IF answer.kind = "raise" THEN NoReturn
  ELSE IF answer.status = "SUCCEEDED"
  THEN IF ~Truthy(answer.dataset_id) THEN WaitFailure("No dataset ID found")
       ELSE FetchDataset(1, answer.datasets)
  ELSE IF IsFailureStatus(answer.status)
  THEN WaitFailure("Run failed with status: " \o answer.status)
  ELSE NoReturn

TimedOutReturn(limit) ==
  WaitFailure("Run timed out after " \o ToString(limit) \o " seconds")

\* The loop condition with the bound included.
KeepPollingInclusive(wait_time, limit) == wait_time <= limit

KeepPolling(wait_time, limit) == wait_time < limit

\* A run as fetch_linkedin_profile sees it: the first terminal answer a poll
\* observes, or NeverTerminal when no poll within max_wait observes one.
NeverTerminal == [kind |-> "never"]
wait_for_run_completion(run) ==
  IF run = NeverTerminal THEN TimedOutReturn(max_wait) ELSE PollReturn(run)

fetch_linkedin_profile(linkedin_url, token, actors, run) ==
  IF ~validate_linkedin_url(linkedin_url)
  THEN Raise(LinkedInScraperError, "Invalid LinkedIn profile URL", 0)
  ELSE LET actor_config ==
             find_working_actor_and_payload(clean_linkedin_url(linkedin_url),
                                            token, actors)
       IN IF actor_config.kind = "raise" THEN actor_config
          ELSE LET result == wait_for_run_completion(run)
               IN IF result.success
                  THEN [kind |-> "record", data |-> sanitize_profile(result.data),
                        requests |-> actor_config.requests]
                  ELSE Raise(LinkedInScraperError,
                             "Scraping failed: " \o result.error,
                             actor_config.requests)

\* fetch_linkedin_profile on its own: the URL a caller passes, what the
\* secrets or the environment hold for APIFY_API_TOKEN, how the API answers
\* for each actor (the existence GET and the POST that starts a run: a status
\* code, or "raise" for a failed request), and what the run comes to.
InitFetch ==
  /\ AppIdle
  /\ ustate \in
       [url : {"", "https://www.linkedin.com/in/ada",
               " https://linkedin.com/in/ada/details/skills ",
               "http://www.linkedin.com/in/ada",
               "https://www.linkedin.com/company/acme"},
        token : {None, "", "apify-token"},
        actors : [1..Len(POSSIBLE_ACTOR_IDS) ->
                    [exists : {"200", "404", "raise"},
                     start : {"201", "400", "raise"}]],
        run : TerminalAnswers \cup {NeverTerminal}]
  /\ uout = [fn |-> None]

ApplyFetch ==
  /\ uout.fn = None
  /\ uout' = [fn |-> "fetch_linkedin_profile",
              result |-> fetch_linkedin_profile(ustate.url, ustate.token,
                                                ustate.actors, ustate.run)]
  /\ UNCHANGED <<ustate, appVars>>

SpecFetch == InitFetch /\ [][ApplyFetch]_vars

\* wait_for_run_completion, one step per pass of its loop.
InitWait ==
  /\ AppIdle
  /\ ustate \in [actor_id : {POSSIBLE_ACTOR_IDS[1]}, run_id : {RunId(1), None}]
  /\ uout = [fn |-> None]

\* The call: wait_time = 0 before the loop.
StartWait ==
  /\ uout.fn = None
  /\ uout' = [fn |-> "wait_for_run_completion", wait_time |-> 0, slept |-> 0,
              polls |-> 0, last |-> NoReturn, result |-> NoReturn]
  /\ UNCHANGED <<ustate, appVars>>

\* One pass of the loop: sleep, add to wait_time, request the status.
Poll(answer) ==
  /\ uout.fn = "wait_for_run_completion"
  /\ uout.result = NoReturn
  /\ KeepPolling(uout.wait_time, max_wait)
  /\ uout' = [uout EXCEPT !.slept = @ + poll_interval,
                          !.wait_time = @ + poll_interval,
                          !.polls = @ + 1,
                          !.last = answer,
                          !.result = PollReturn(answer)]
  /\ UNCHANGED <<ustate, appVars>>

\* The loop condition fails: the return after the loop.
TimeOut ==
  /\ uout.fn = "wait_for_run_completion"
  /\ uout.result = NoReturn
  /\ ~KeepPolling(uout.wait_time, max_wait)
  /\ uout' = [uout EXCEPT !.result = TimedOutReturn(max_wait)]
  /\ UNCHANGED <<ustate, appVars>>

NextWait ==
  \/ StartWait
  \/ \E a \in NonTerminalAnswers \cup TerminalAnswers : Poll(a)
  \/ TimeOut

SpecWait == InitWait /\ [][NextWait]_vars

\* The interpreter runs the loop on: every pass and the return are taken.
SpecWaitFair == SpecWait /\ WF_vars(NextWait)

\* ================================================================= claims

HandlerInvocations == {i \in 1..Len(invoked) : invoked[i] \in valid_intents}

InTurn == pc \in {"invoke", "returned", "raised"}

\* C1: in every turn the classifier is invoked exactly once and exactly one
\* handler is invoked before the turn ends, never more, the classifier first.
C1_OneClassifierOneHandler ==
  InTurn =>
    /\ Len(invoked) <= 2
    /\ (Len(invoked) >= 1 => invoked[1] = "intent_classifier_agent")
    /\ (Len(invoked) >= 2 => invoked[2] \in valid_intents)
    /\ (pc = "returned" => Len(invoked) = 2)

\* C2: when the completion call fails inside a handler, the router's decision
\* right after that handler returns is END, so the handler is not run again.
C2_FailedHandlerTerminates ==
  \A i \in HandlerInvocations : failures[i] => decisions[i] = END

\* C3: a turn makes at most RecursionLimit node invocations; when the limit is
\* reached without the router ending the turn, the invocation raises (a fatal
\* error of the turn) and no further node is run.
C3_TurnBounded ==
  /\ Len(invoked) <= RecursionLimit
  /\ (pc = "invoke" => Len(invoked) < RecursionLimit)
  /\ (Len(invoked) = RecursionLimit /\ decisions[RecursionLimit] # END
        => pc = "raised" /\ exc = RecursionMessage)

\* A turn in which no handler result ever matched the question hit the limit.
C3_Witness ==
  /\ pc = "raised"
  /\ exc = RecursionMessage
  /\ Len(invoked) = RecursionLimit
  /\ \A i \in 1..Len(decisions) : decisions[i] # END

\* C4: router returns END for every state in which the key error is present
\* or force_end is truthy, whatever the other fields hold.
C4_ErrorOrForceEndTerminates ==
  (uout.fn = "router" /\ (ustate.error # NoKey \/ ustate.force_end = PyTrue))
    => uout.decision = END

\* An error beside a classification and no answer at all: router ends the turn.
C4_Witness ==
  /\ uout.fn = "router"
  /\ ustate.error = "boom"
  /\ ustate.force_end = NoKey
  /\ ustate.command = "chat"
  /\ ustate.intent_classification.kind = "dict"
  /\ ustate.intent_classification.intent = "job_fit_agent"
  /\ \A k \in ResultSlots : ustate[k] = AbsentSlot
  /\ uout.decision = END

\* C5: without error and force_end and with command "chat", router returns END
\* when any of the four slots holds a result whose user_question is the state's
\* user_question, whichever slot it is and whatever the classified intent.
C5_AnsweredTerminates ==
  ( /\ uout.fn = "router"
    /\ ustate.error = NoKey
    /\ ustate.force_end # PyTrue
    /\ ustate.command = "chat"
    /\ \E k \in ResultSlots :
         ustate[k].kind = "dict" /\ ustate[k].user_question = ustate.user_question )
    => uout.decision = END

\* The answer sits in enhanced_content alone while the classification names job fit.
C5_Witness ==
  /\ uout.fn = "router"
  /\ ustate.error = NoKey
  /\ ustate.force_end # PyTrue
  /\ ustate.command = "chat"
  /\ ustate.enhanced_content.kind = "dict"
  /\ ustate.enhanced_content.user_question = ustate.user_question
  /\ \A k \in ResultSlots \ {"enhanced_content"} : ustate[k] = AbsentSlot
  /\ ustate.intent_classification.kind = "dict"
  /\ ustate.intent_classification.intent = "job_fit_agent"
  /\ uout.decision = END

\* C6: without error and force_end, when every result present in a slot has a
\* user_question other than the state's, router does not return END: it
\* returns the intent the classification names.
C6_StaleResultReroutes ==
  ( /\ uout.fn = "router"
    /\ ustate.error = NoKey
    /\ ustate.force_end # PyTrue
    /\ \A k \in ResultSlots :
         ustate[k].kind = "dict"
           => DictGet(ustate[k].user_question) # DictGet(ustate.user_question) )
    => /\ uout.decision # END
       /\ ( /\ ustate.intent_classification.kind = "dict"
            /\ ustate.intent_classification.intent \notin {Missing, ""} )
            => uout.decision = ustate.intent_classification.intent

\* A chat state whose job_fit slot answers another question is routed to job fit.
C6_Witness ==
  /\ uout.fn = "router"
  /\ ustate.error = NoKey
  /\ ustate.force_end # PyTrue
  /\ ustate.command = "chat"
  /\ ustate.user_question = StaleQuestion
  /\ ustate.job_fit.kind = "dict"
  /\ ustate.job_fit.user_question = SomeQuestion
  /\ ustate.intent_classification.kind = "dict"
  /\ ustate.intent_classification.intent = "job_fit_agent"
  /\ uout.decision = "job_fit_agent"

\* C7: every result a handler returns in chat mode, the success result and the
\* success=false result alike, carries the question that triggered the handler.
C7_ResultCarriesQuestion ==
  ( /\ uout.fn \in valid_intents
    /\ ustate.user_question \in Questions )
    => \A k \in DOMAIN uout.update \cap ResultSlots :
         uout.update[k].user_question = ustate.user_question

Apologies == {ProfileApology, JobFitApology, EnhancerApology, CoachApology}

\* C8: when the completion call fails inside the turn's handler, the turn ends
\* without exception and without state.error, and the reply is that handler's
\* apology message.
C8_FailureRepliesApology ==
  ( /\ pc \in {"returned", "raised"}
    /\ \E i \in HandlerInvocations : failures[i] )
    => /\ pc = "returned"
       /\ state.error = NoKey
       /\ Response \in Apologies

C10_OneHandlerPerClassification ==
  InTurn =>
    /\ Cardinality({k \in ResultSlots :
                      /\ state[k].kind = "dict"
                      /\ state[k].user_question = state.user_question}) <= 1
    /\ \A i \in HandlerInvocations : invoked[i] = classified

\* C11: when neither termination condition holds, router returns the intent of
\* the classification if one is present with a non-empty intent, and
\* "career_coach_agent" when there is no classification, an empty one, or one
\* whose intent is missing or empty.
C11_RoutesToIntentOrCoach ==
  ( /\ uout.fn = "router"
    /\ ustate.error = NoKey
    /\ ustate.force_end # PyTrue
    /\ ~ ( /\ ustate.command = "chat"
           /\ \E k \in ResultSlots :
                /\ ustate[k].kind = "dict"
                /\ DictGet(ustate[k].user_question) = DictGet(ustate.user_question) ) )
    => uout.decision =
         IF /\ ustate.intent_classification.kind = "dict"
            /\ ustate.intent_classification.intent \notin {Missing, None, ""}
         THEN ustate.intent_classification.intent
         ELSE "career_coach_agent"

\* A classification whose intent is the empty string, beside a stale result:
\* the career coach is the default.
C11_Witness ==
  /\ uout.fn = "router"
  /\ ustate.error = NoKey
  /\ ustate.force_end # PyTrue
  /\ ustate.command = "chat"
  /\ ustate.user_question = StaleQuestion
  /\ ustate.analysis.kind = "dict"
  /\ ustate.analysis.user_question = SomeQuestion
  /\ ustate.intent_classification.kind = "dict"
  /\ ustate.intent_classification.intent = ""
  /\ uout.decision = "career_coach_agent"

C13_ClassificationMerged ==
  (InTurn /\ Len(invoked) >= 1)
    => /\ state.intent_classification.kind = "dict"
       /\ state.intent_classification.intent = classified

\* C14: when a turn ends without state.error, the reply is the message of the
\* result in the slot mapped from the turn's classified intent, that result
\* carries the current question, and no other slot was written in the turn.
C14_ReplyFromIntentSlot ==
  (pc = "returned" /\ state.error = NoKey)
    => LET k == agent_output_map(classified)
       IN /\ k \in ResultSlots
          /\ state[k].kind = "dict"
          /\ state[k].user_question = processing_prompt
          /\ Response = state[k].message
          /\ \A j \in ResultSlots \ {k} : state[j] = AbsentSlot

\* C15: a prompt being processed changes the chat history only once, at the
\* step that ends the turn: that step appends exactly one assistant message
\* with a non-empty content and resets processing_prompt to None, whether
\* invoke returned a result, returned an error state, or raised.
C15_TurnEndsWithOneReply ==
  [][ (pc \in {"rerun", "invoke", "returned", "raised"} /\ pc' # "rerun")
        => IF pc' = "waiting"
           THEN /\ Len(chat_history') = Len(chat_history) + 1
                /\ SubSeq(chat_history', 1, Len(chat_history)) = chat_history
                /\ chat_history'[Len(chat_history')].role = "assistant"
                /\ Truthy(chat_history'[Len(chat_history')].content)
                /\ processing_prompt' = None
           ELSE /\ chat_history' = chat_history
                /\ processing_prompt' = processing_prompt
                /\ pc' \in {"invoke", "returned", "raised"} ]_vars

\* The turn that hit the iteration limit has ended with its one reply.
C15_Witness ==
  /\ pc = "waiting"
  /\ processing_prompt = None
  /\ Len(chat_history) >= 3
  /\ chat_history[Len(chat_history)] =
       Message("assistant", "Sorry, I encountered an error: " \o RecursionMessage)
  /\ chat_history[Len(chat_history) - 1].role = "user"

\* C16: for every question and every completion outcome (the call raises, the
\* text is not JSON, it parses to a non-object, the object has an invalid or
\* no intent) classify_intent returns a mapping, never an exception, with
\* success set and an intent that is one of the four handler names.
C16_ClassifyNeverRaises ==
  uout.fn = "classify_intent"
    => /\ uout.result.kind = "dict"
       /\ uout.result.success = PyTrue
       /\ uout.result.intent \in valid_intents

\* The completion text parsed to a value that is not an object.
C16_Witness ==
  /\ uout.fn = "classify_intent"
  /\ uout.completion.parse = "nonobject"
  /\ ustate.user_question = "How well do I match?"
  /\ uout.result.kind = "dict"
  /\ uout.result.intent = "job_fit_agent"

\* C17: when the completion call fails or its text does not parse, the
\* keyword groups are tested on the lower-cased question in the order profile
\* analysis, job fit, content enhancement: the first group with a keyword in
\* the question gives the intent, with confidence 0.7, and a question with no
\* keyword gives career_coach_agent with confidence 0.5.
C17_FallbackKeywordOrder ==
  ( /\ uout.fn = "classify_intent"
    /\ (uout.completion.kind = "raise" \/ uout.completion.parse = "nojson") )
    => LET found == KeywordsIn(Lower(ustate.user_question))
           inProfile == found \cap profile_keywords # {}
           inJobFit == found \cap job_fit_keywords # {}
           inContent == found \cap content_keywords # {}
       IN /\ inProfile => uout.result.intent = "profile_analyzer_agent"
          /\ (~inProfile /\ inJobFit) => uout.result.intent = "job_fit_agent"
          /\ (~inProfile /\ ~inJobFit /\ inContent)
               => uout.result.intent = "content_enhancer_agent"
          /\ (inProfile \/ inJobFit \/ inContent) => uout.result.confidence = 70
          /\ (~inProfile /\ ~inJobFit /\ ~inContent)
               => /\ uout.result.intent = "career_coach_agent"
                  /\ uout.result.confidence = 50

\* A question typed in capitals with a keyword of every group, the call failing.
C17_Witness ==
  /\ uout.fn = "classify_intent"
  /\ uout.completion.kind = "raise"
  /\ ustate.user_question = "ANALYZE MY SCORE AND ENHANCE IT"
  /\ uout.result.intent = "profile_analyzer_agent"
  /\ uout.result.confidence = 70

\* C18 as stated: when the text parses to an object whose intent is not one of
\* the four valid names, the result has the intent and the confidence the
\* keyword fallback gives for the same question.
C18_InvalidIntentUsesKeywords ==
  ( /\ uout.fn = "classify_intent"
    /\ uout.completion.kind = "text"
    /\ uout.completion.parse = "object"
    /\ uout.completion.intent \notin valid_intents )
    => LET fallback == _fallback_classification(ustate.user_question, ustate.session_id)
       IN /\ uout.result.intent = fallback.intent
          /\ uout.result.confidence = fallback.confidence

\* C18 amended: when the text parses to an object whose intent is not one of
\* the four valid names (or is missing), the result is career_coach_agent with
\* confidence 0.5 and success set, whatever keywords the question contains.
C18_InvalidIntentDefaultsToCoach ==
  ( /\ uout.fn = "classify_intent"
    /\ uout.completion.kind = "text"
    /\ uout.completion.parse = "object"
    /\ uout.completion.intent \notin valid_intents )
    => /\ uout.result.intent = "career_coach_agent"
       /\ uout.result.confidence = 50
       /\ uout.result.success = PyTrue

\* An invalid intent for a question the keyword fallback gives to the profile
\* analyzer.
C18_Witness ==
  /\ uout.fn = "classify_intent"
  /\ uout.completion.parse = "object"
  /\ uout.completion.intent = "intent_classifier_agent"
  /\ ustate.user_question = "Analyze my strengths"
  /\ _fallback_classification(ustate.user_question, ustate.session_id).intent
       = "profile_analyzer_agent"
  /\ uout.result.intent = "career_coach_agent"
  /\ uout.result.confidence = 50

\* C19: every step of a session (profile load, prompt submission, the steps
\* of a turn, its completion with a reply or an error reply) leaves the
\* previous chat history as a prefix of the new one, and the reply of a turn
\* is appended right after the user message the turn answers.
C19_HistoryAppendOnly ==
  [][ /\ Len(chat_history') >= Len(chat_history)
      /\ SubSeq(chat_history', 1, Len(chat_history)) = chat_history
      /\ (pc \in {"returned", "raised"} /\ pc' = "waiting")
           => /\ chat_history[Len(chat_history)] = Message("user", processing_prompt)
              /\ Len(chat_history') = Len(chat_history) + 1
              /\ chat_history'[Len(chat_history')].role = "assistant" ]_vars

\* A profile loaded again after a turn: welcome, user, reply, welcome.
C19_Witness ==
  /\ Len(chat_history) >= 4
  /\ chat_history[1].role = "assistant"
  /\ chat_history[2].role = "user"
  /\ chat_history[3].role = "assistant"
  /\ chat_history[3].content = "Here is my advice."
  /\ chat_history[4] = chat_history[1]
  /\ loads = 2

\* C20: after a turn in which a handler produced a result, the session holds
\* that result as the last result of its slot, between turns and at the start
\* of the turns that follow.
C20_LastResultHeld ==
  (pc \in {"waiting", "rerun"} /\ turns >= 1)
    => \A k \in ResultSlots \cap memory_keys :
         state[k].kind = "dict" => LastResult(k) = state[k]

\* C21: a prompt is taken up and a turn runs only in a session whose
\* profile_loaded is true; the flag becomes true only in a load whose fetch
\* returned a record with a non-empty name; every other load leaves a notice
\* on the page, changes neither flag, profile nor history, and starts no turn.
C21_TurnNeedsLoadedProfile ==
  [][ /\ (pc' # "waiting" => profile_loaded')
      /\ (~profile_loaded /\ profile_loaded') => loads' = loads + 1
      /\ (loads' = loads + 1)
           => \/ /\ profile_loaded'
                 /\ profile'.name # ""
                 /\ notice' = None
                 /\ Len(chat_history') = Len(chat_history) + 1
              \/ /\ notice' \in {NoticeMissingInput, NoticeScrapeFailed, NoticeLoadError}
                 /\ profile_loaded' = profile_loaded
                 /\ profile' = profile
                 /\ chat_history' = chat_history
                 /\ pc' = "waiting"
                 /\ processing_prompt' = processing_prompt ]_vars

\* The first load of a session fetched a record without a name.
C21_Witness ==
  /\ notice = NoticeScrapeFailed
  /\ ~profile_loaded
  /\ loads = 1
  /\ pc = "waiting"
  /\ chat_history = <<>>
  /\ turns = 0

\* C22: once a profile is loaded in a session, no later step (a further load,
\* a failed load, a turn) replaces or changes the session's profile.
C22_ProfileImmutable ==
  [][profile_loaded => profile' = profile]_vars

\* C23: prompts of a session are served one at a time and each exactly once:
\* every user message in the history except a last one still being served is
\* directly followed by the assistant reply to it.
C23_PromptsServedInOrder ==
  \A i \in 1..Len(chat_history) - 1 :
    chat_history[i].role = "user" => chat_history[i + 1].role = "assistant"

\* C28: no exception of a node reaches the engine: graph.invoke raises only
\* the engine's own errors, and a failure inside a node, the initialisation of
\* the agents included, is found in state.error, on which router ends the turn.
C28_NodesNeverRaise ==
  /\ (pc = "raised" => exc \in {RecursionMessage, UnknownNodeMessage})
  /\ (InTurn /\ state.error # NoKey)
       => pc = "returned" /\ decisions[Len(decisions)] = END

\* C29: in a turn of the application every router decision is END or one of
\* the four handler names, the classifier runs first and never again, and the
\* classification of the turn does not change once the classifier returned.
C29_RouterNamesHandlers ==
  [][ /\ \A i \in 1..Len(decisions') : decisions'[i] \in valid_intents \cup {END}
      /\ \A i \in 2..Len(invoked') : invoked'[i] # "intent_classifier_agent"
      /\ (InTurn /\ Len(invoked) >= 1 /\ pc' # "waiting")
           => /\ classified' = classified
              /\ state'.intent_classification = state.intent_classification ]_vars

\* The handler ran twice after the classifier; the classifier did not run again.
C29_Witness ==
  /\ pc = "returned"
  /\ invoked = <<"intent_classifier_agent", "career_coach_agent", "career_coach_agent">>
  /\ decisions = <<"career_coach_agent", "career_coach_agent", END>>
  /\ classified = "job_fit_agent"

\* C24: for every history, the context a handler builds is made from the last
\* 6 messages only, in their order, one part per user or assistant message
\* among them, each part holding at most the first 150 characters of the
\* message content; an empty history gives the fixed beginning text.
C24_ContextLastSixTruncated ==
  uout.fn = "_build_conversation_context"
    => LET h == ustate.chat_history
           n == Len(h)
           first == IF n > 6 THEN n - 5 ELSE 1
           shown == {i \in first..n : h[i].role \in {"user", "assistant"}}
           result == uout.result
       IN /\ (n = 0 => result = [kind |-> "text", text |-> BeginningText])
          /\ result.kind = "parts"
               => /\ Len(result.parts) = Cardinality(shown)
                  /\ Len(result.parts) <= 6
                  /\ \A j \in 1..Len(result.parts) :
                       LET i == CHOOSE i \in shown :
                                  Cardinality({k \in shown : k <= i}) = j
                           content == result.parts[j].content
                       IN /\ Len(content) <= 150
                          /\ Len(content) <= Len(h[i].content)
                          /\ content = SubSeq(h[i].content, 1, Len(content))
                          /\ (Len(h[i].content) >= 150 => Len(content) = 150)
                          /\ (result.parts[j].label = "User") = (h[i].role = "user")
          /\ result.kind = "text" => (result.text = BeginningText /\ shown = {})

\* Seven messages, the oldest a long question: six parts, none of them from it.
C24_Witness ==
  /\ uout.fn = "_build_conversation_context"
  /\ Len(ustate.chat_history) = 7
  /\ ustate.chat_history[1] = Message("user", LongContent)
  /\ \A i \in 2..6 : ustate.chat_history[i] = Message("assistant", ShortContent)
  /\ ustate.chat_history[7] = Message("user", LongContent)
  /\ uout.result.kind = "parts"
  /\ Len(uout.result.parts) = 6
  /\ uout.result.parts[1].label \in {"Assistant", "Coach"}
  /\ Len(uout.result.parts[6].content) = 150

\* The entries a line of the prompt holds.
EntriesOf(line) ==
  IF line.kind = "parts" THEN Len(line.parts)
  ELSE IF line.kind = "repr" THEN Len(line.items)
  ELSE 0

\* C25: in the user prompt of each of the four chat handlers the profile
\* summary has at most the first 3 experience entries, each written as
\* "title at company", and at most 2 education entries.
C25_SummaryLimited ==
  uout.fn = "user_prompt"
    => /\ EntriesOf(uout.result.experience) <= 3
       /\ EntriesOf(uout.result.education) <= 2
       /\ ustate.profile.experience # <<>>
            => /\ uout.result.experience.kind = "parts"
               /\ \A i \in 1..Len(uout.result.experience.parts) :
                    ustate.profile.experience[i].kind = "dict"
                      => uout.result.experience.parts[i] =
                           ExperienceText(ustate.profile.experience[i])

\* The run fetch_linkedin_profile waited for reached SUCCEEDED and one of its
\* dataset URLs answered a non-empty list.
RunSucceededWithData(run) ==
  /\ run.kind = "status"
  /\ run.status = "SUCCEEDED"
  /\ Truthy(run.dataset_id)
  /\ \E i \in DatasetUrls : HasData(run.datasets[i])

\* C26: fetch_linkedin_profile returns a Profile Record only when the URL is
\* valid, an actor accepted the run, the run reached SUCCEEDED and the dataset
\* was non-empty; in every other case (a missing API token among them) it
\* fails with LinkedInScraperError, and for an invalid URL it fails before any
\* actor request is made.
C26_FetchFailsWithScraperError ==
  uout.fn = "fetch_linkedin_profile"
    => /\ uout.result.kind = "record"
            => /\ validate_linkedin_url(ustate.url)
               /\ \E i \in 1..Len(POSSIBLE_ACTOR_IDS) : ActorAccepts(ustate.actors[i])
               /\ RunSucceededWithData(ustate.run)
       /\ uout.result.kind # "record"
            => /\ uout.result.kind = "raise"
               /\ uout.result.type = LinkedInScraperError
       /\ ~validate_linkedin_url(ustate.url)
            => /\ uout.result.kind = "raise"
               /\ uout.result.requests = 0

\* C27: wait_for_run_completion with max_wait = 180 terminates for every
\* sequence of status responses and request failures: it sleeps 10 seconds
\* before each poll, makes at most 18 polls (the accumulated wait never exceeds
\* 180 seconds), and when no poll observes a terminal status it returns a
\* success=False result reporting the timeout.
C27_WaitEndsWithin18Polls ==
  /\ [](uout.fn = "wait_for_run_completion"
          => /\ uout.slept = 10 * uout.polls
             /\ uout.wait_time = uout.slept
             /\ uout.polls <= 18
             /\ uout.wait_time <= 180
             /\ (uout.result # NoReturn /\ uout.last \notin TerminalAnswers)
                  => /\ uout.polls = 18
                     /\ uout.result =
                          [kind |-> "dict", success |-> FALSE, data |-> Missing,
                           error |-> "Run timed out after 180 seconds"])
  /\ <>(uout.fn = "wait_for_run_completion" /\ uout.result # NoReturn)

C27_Witness ==
  /\ uout.fn = "wait_for_run_completion"
  /\ uout.polls = 18
  /\ uout.last = StatusRaises
  /\ uout.result.kind = "dict"
  /\ ~uout.result.success
  /\ uout.result.error = "Run timed out after 180 seconds"

\* C30: wait_for_run_completion returns at the first poll that observes a
\* terminal run status (SUCCEEDED, FAILED, ABORTED, TIMED-OUT) and never polls
\* again after it; it returns success=True only if that status is SUCCEEDED
\* and a dataset request returned a non-empty list, whose first item is the
\* data; a non-terminal status or an exception of the status request never
\* ends polling before max_wait.
C30_ReturnsAtFirstTerminalStatus ==
  /\ [](uout.fn = "wait_for_run_completion"
          => /\ (uout.last # NoReturn /\ uout.last.kind = "status"
                 /\ uout.last.status \in {"SUCCEEDED", "FAILED", "ABORTED", "TIMED-OUT"})
                  => uout.result # NoReturn
             /\ (uout.result # NoReturn /\ uout.result.success)
                  => /\ uout.last.kind = "status"
                     /\ uout.last.status = "SUCCEEDED"
                     /\ \E i \in DatasetUrls :
                          /\ uout.last.datasets[i].kind = "http"
                          /\ Len(uout.last.datasets[i].data) > 0
                          /\ uout.result.data = uout.last.datasets[i].data[1]
             /\ (uout.result # NoReturn /\ uout.wait_time < 180)
                  => /\ uout.last.kind = "status"
                     /\ uout.last.status \in {"SUCCEEDED", "FAILED", "ABORTED", "TIMED-OUT"})
  /\ [][(uout.fn = "wait_for_run_completion" /\ uout.result # NoReturn)
          => uout'.polls = uout.polls]_vars

C30_Witness ==
  /\ uout.fn = "wait_for_run_completion"
  /\ uout.polls = 2
  /\ uout.last.kind = "status"
  /\ uout.last.status = "SUCCEEDED"
  /\ Truthy(uout.last.dataset_id)
  /\ uout.last.datasets[1].kind = "raise"
  /\ uout.result.kind = "dict"
  /\ uout.result.success
  /\ uout.result.data = RawSplitName

====
